---------------------------- MODULE Spec2Model ----------------------------
(***************************************************************************)
(* Shamir secret sharing over GF(2^m) as implemented in                    *)
(* libs/common/embit/shamir_crypto.py.                                      *)
(*                                                                         *)
(* Python integers are modelled as TLA+ naturals and every bit operation   *)
(* of the source (^, &, |, <<, >>, bin()) is computed on them.  Byte       *)
(* strings are sequences over 0..255, big-endian as in the source.         *)
(*                                                                         *)
(* Scaling.  TLC enumerates states explicitly and its integers are 32 bit  *)
(* wide, so the field sizes of the source (128 .. 256 bits, secrets of 16  *)
(* .. 32 bytes) are scaled to 8, 16 and 24 bits (secrets of 1, 2 and 3     *)
(* bytes).  The table of reduction polynomials keeps the shape of the      *)
(* source's table (one primitive pentanomial of degree m per supported     *)
(* size m, m = 8 * byte length).  Every operator below is written for an   *)
(* arbitrary field size and polynomial, exactly as the source reads them   *)
(* from the class attributes _Element.field_size and _Element.irr_poly.    *)
(***************************************************************************)
EXTENDS Integers, Sequences, FiniteSets

VARIABLES
    field_size,   \* class attribute _Element.field_size
    irr_poly,     \* class attribute _Element.irr_poly
    call,         \* the most recent call: its operation and arguments
    ret,          \* what that call returned or raised
    held,         \* the shares the caller got from the last successful split
    running       \* the invocations in progress, each with its local variables

vars == <<field_size, irr_poly, call, ret, held, running>>

(***************************************************************************)
(* Bit operations of Python integers (non-negative operands only).         *)
(***************************************************************************)
\* One binary digit position at a time: the definition of ^, & and | on the
\* binary expansions, used to tabulate them on bytes.
RECURSIVE BitwiseDigits(_, _, _)
BitwiseDigits(a, b, digit) ==
    IF a = 0 /\ b = 0 THEN 0
    ELSE 2 * BitwiseDigits(a \div 2, b \div 2, digit) + digit[a % 2][b % 2]

XorDigit == [x \in 0..1 |-> [y \in 0..1 |-> (x + y) % 2]]
AndDigit == [x \in 0..1 |-> [y \in 0..1 |-> x * y]]
OrDigit  == [x \in 0..1 |-> [y \in 0..1 |-> x + y - x * y]]

XorByte == [x \in 0..255 |-> [y \in 0..255 |-> BitwiseDigits(x, y, XorDigit)]]
AndByte == [x \in 0..255 |-> [y \in 0..255 |-> BitwiseDigits(x, y, AndDigit)]]
OrByte  == [x \in 0..255 |-> [y \in 0..255 |-> BitwiseDigits(x, y, OrDigit)]]

\* a ^ b
RECURSIVE BitXor(_, _)
BitXor(a, b) ==
    IF a = 0 THEN b
    ELSE IF b = 0 THEN a
    ELSE 256 * BitXor(a \div 256, b \div 256) + XorByte[a % 256][b % 256]

\* a & b
RECURSIVE BitAnd(_, _)
BitAnd(a, b) ==
    IF a = 0 \/ b = 0 THEN 0
    ELSE 256 * BitAnd(a \div 256, b \div 256) + AndByte[a % 256][b % 256]

\* a | b
RECURSIVE BitOr(_, _)
BitOr(a, b) ==
    IF a = 0 THEN b
    ELSE IF b = 0 THEN a
    ELSE 256 * BitOr(a \div 256, b \div 256) + OrByte[a % 256][b % 256]

\* int(bin(bit)[2:] * count, 2) for bit in {0, 1}: the digit written count
\* times and read in base 2.
RepeatBit(bit, count) == bit * (2 ^ count - 1)

(***************************************************************************)
(* Polynomials over GF(2).  A loop of the source is a recursive operator   *)
(* over the tuple of the variables the loop updates.                       *)
(***************************************************************************)
\* while f2: ... of _mult_gf2; st = <<f1, f2, z>>
RECURSIVE _mult_gf2_loop(_)
_mult_gf2_loop(st) ==
    LET f1 == st[1]
        f2 == st[2]
        z  == st[3]
    IN IF f2 = 0 THEN z
       ELSE _mult_gf2_loop(<<f1 * 2, f2 \div 2,
                             IF f2 % 2 = 1 THEN BitXor(z, f1) ELSE z>>)

_mult_gf2(f1, f2) ==
    IF f2 > f1 THEN _mult_gf2_loop(<<f2, f1, 0>>)
    ELSE _mult_gf2_loop(<<f1, f2, 0>>)

\* deg of _div_gf2: len(bin(abs(n))) - 2, and 0 for n = 0.
RECURSIVE deg(_)
deg(n) == IF n = 0 THEN 0 ELSE 1 + deg(n \div 2)

\* while deg(r) >= d: ... of _div_gf2; st = <<q, r>>
RECURSIVE _div_gf2_loop(_, _, _)
_div_gf2_loop(st, b, d) ==
    LET q == st[1]
        r == st[2]
    IN IF deg(r) >= d
       THEN LET s == 2 ^ (deg(r) - d)
            IN _div_gf2_loop(<<BitXor(q, s), BitXor(r, _mult_gf2(b, s))>>, b, d)
       ELSE <<q, r>>

_div_gf2(a, b) ==
    IF a < b THEN <<0, a>> ELSE _div_gf2_loop(<<0, a>>, b, deg(b))

(***************************************************************************)
(* class _Element.  E is the pair of class attributes the method reads.    *)
(***************************************************************************)
NoAttr == -1   \* the attribute has not been assigned yet

Supported == {8, 16, 24}

irr_poly_table ==
    [fs \in Supported |->
        CASE fs = 8  -> 1 + 2^2 + 2^3 + 2^4 + 2^8
          [] fs = 16 -> 1 + 2^2 + 2^3 + 2^5 + 2^16
          [] fs = 24 -> 1 + 2^1 + 2^3 + 2^4 + 2^24]

Attrs(fs, ip) == [field_size |-> fs, irr_poly |-> ip]

\* Mutant: the reduction looks at bit field_size - 1 of the shifted value.
RECURSIVE __mul__loop_early_reduce(_, _)
__mul__loop_early_reduce(st, E) ==
    LET v  == st[1]
        f2 == st[2]
        z  == st[3]
    IN IF f2 = 0 THEN z
       ELSE LET mask1 == 2 ^ E.field_size
                mask2 == RepeatBit(f2 % 2, E.field_size)
                z1    == BitOr(BitAnd(mask2, BitXor(z, v)),
                               BitAnd(mask1 - mask2 - 1, z))
                v1    == v * 2
                mask3 == RepeatBit((v1 \div (2 ^ (E.field_size - 1))) % 2,
                                   E.field_size)
                v2    == BitOr(BitAnd(mask3, BitXor(v1, E.irr_poly)),
                               BitAnd(mask1 - mask3 - 1, v1))
            IN __mul__loop_early_reduce(<<v2, f2 \div 2, z1>>, E)

\* while f2: ... of __mul__; st = <<v, f2, z>>
RECURSIVE __mul__loop(_, _)
__mul__loop(st, E) ==
    LET v  == st[1]
        f2 == st[2]
        z  == st[3]
    IN IF f2 = 0 THEN z
       ELSE LET mask1 == 2 ^ E.field_size
                mask2 == RepeatBit(f2 % 2, E.field_size)
                z1    == BitOr(BitAnd(mask2, BitXor(z, v)),
                               BitAnd(mask1 - mask2 - 1, z))
                v1    == v * 2
                mask3 == RepeatBit((v1 \div (2 ^ E.field_size)) % 2,
                                   E.field_size)
                v2    == BitOr(BitAnd(mask3, BitXor(v1, E.irr_poly)),
                               BitAnd(mask1 - mask3 - 1, v1))
            IN __mul__loop(<<v2, f2 \div 2, z1>>, E)

__mul__(self, factor, E) ==
    LET f1 == IF factor > self THEN factor ELSE self
        f2 == IF factor > self THEN self ELSE factor
    IN IF E.irr_poly \in {f1, f2} THEN 0 ELSE __mul__loop(<<f1, f2, 0>>, E)

__add__(self, term) == BitXor(self, term)

\* while r1 > 0: ... of inverse; st = <<r0, r1, s0, s1>>
RECURSIVE inverse_loop(_)
inverse_loop(st) ==
    LET r0 == st[1]
        r1 == st[2]
        s0 == st[3]
        s1 == st[4]
    IN IF r1 > 0
       THEN LET q == _div_gf2(r0, r1)[1]
            IN inverse_loop(<<r1, BitXor(r0, _mult_gf2(q, r1)),
                              s1, BitXor(s0, _mult_gf2(q, s1))>>)
       ELSE s0

\* inverse() raises ValueError("Inversion of zero") exactly on this test.
inverse_raises(self) == self = 0

\* Mutant: the Bezout coefficients start as s0, s1 = 0, 1.
inverse_swapped_start(self, E) == inverse_loop(<<self, E.irr_poly, 0, 1>>)

inverse(self, E) == inverse_loop(<<self, E.irr_poly, 1, 0>>)

\* _Element(encoded_value) for an int: the value itself.
__init__int(encoded_value) == encoded_value

\* int.from_bytes(b, 'big')
RECURSIVE from_bytes(_)
from_bytes(b) ==
    IF b = <<>> THEN 0
    ELSE 256 * from_bytes(SubSeq(b, 1, Len(b) - 1)) + b[Len(b)]

\* Mutant: the length of the byte string is not looked at.
__init__accepts_any(encoded_value, E) == FALSE

\* _Element(encoded_value) for a byte string raises ValueError("The encoded
\* value must be an integer or a field_size/8 byte string") on this test.
__init__raises(encoded_value, E) == Len(encoded_value) # E.field_size \div 8

__init__(encoded_value, E) == from_bytes(encoded_value)

\* value.to_bytes(length, 'big') raises OverflowError when the value needs
\* more than length bytes.
to_bytes_raises(value, length) == deg(value) > 8 * length

to_bytes(value, length) ==
    [i \in 1..length |-> (value \div (256 ^ (length - i))) % 256]

encode_raises(self, E) == to_bytes_raises(self, E.field_size \div 8)

encode(self, E) == to_bytes(self, E.field_size \div 8)

\* _Element.field_size = field_size
set_field_size_assign(E, fs) == [E EXCEPT !.field_size = fs]

\* irr_poly_table[field_size] raises KeyError on this test.
set_field_size_raises(fs) == fs \notin DOMAIN irr_poly_table

\* _Element.irr_poly = _Element.irr_poly_table[field_size]
set_field_size_lookup(E) == [E EXCEPT !.irr_poly = irr_poly_table[E.field_size]]

\* Mutant: the attributes are assigned once and kept by every later call.
set_field_size_once(E, fs) ==
    IF E.field_size # NoAttr THEN E
    ELSE IF set_field_size_raises(fs) THEN set_field_size_assign(E, fs)
    ELSE set_field_size_lookup(set_field_size_assign(E, fs))

\* The class attributes after the call, whether it returned or raised.
set_field_size(E, fs) ==
    IF set_field_size_raises(fs) THEN set_field_size_assign(E, fs)
    ELSE set_field_size_lookup(set_field_size_assign(E, fs))

(***************************************************************************)
(* The mnemonic codec (embit.bip39) and the key derivation (hashlib).      *)
(* A mnemonic is the sequence of the positions of its words in the word    *)
(* list, counted from 1; the scaled codec writes one word per byte.        *)
(***************************************************************************)
mnemonic_from_bytes(b) == [i \in 1..Len(b) |-> b[i] + 1]

mnemonic_to_bytes(mnemonic) == [i \in 1..Len(mnemonic) |-> mnemonic[i] - 1]

\* A fixed function of password, salt and length stands for PBKDF2-HMAC-SHA512:
\* the salt of the source is determined by i and nb_shares.
RECURSIVE Digest(_)
Digest(text) ==
    IF text = <<>> THEN 7
    ELSE (31 * Digest(SubSeq(text, 1, Len(text) - 1)) + text[Len(text)]) % 251

pbkdf2_hmac(password, i, nb_shares, dklen) ==
    [j \in 1..dklen |->
        (Digest(password) * 37 + 89 * i + 57 * nb_shares + 113 * j) % 256]

\* rnd_bytes[nb_shares - 1] is the secret; rnd_bytes[i], i < nb_shares - 1,
\* is derived.  Sequences count from 1.
mnemonic_to_shares(mnemonic, nb_shares) ==
    LET last == mnemonic_to_bytes(mnemonic)
    IN [i \in 1..nb_shares |->
          IF i = nb_shares THEN last
          ELSE pbkdf2_hmac(mnemonic, i - 1, nb_shares, Len(last))]

(***************************************************************************)
(* class Shamir.  A call yields the record of what it returned or raised,  *)
(* with the class attributes it leaves behind.                             *)
(***************************************************************************)
Outcome(status, E, shares, secret, derived) ==
    [status |-> status, E |-> E, shares |-> shares, secret |-> secret,
     derived |-> derived]

\* Mutant: share = idx * (share + coeff).
RECURSIVE make_share_loop_misplaced(_, _, _, _)
make_share_loop_misplaced(st, idx, coeffs, E) ==
    LET i     == st[1]
        share == st[2]
    IN IF i > Len(coeffs) THEN share
       ELSE make_share_loop_misplaced(
                <<i + 1, __mul__(idx, __add__(share, coeffs[i]), E)>>,
                idx, coeffs, E)

\* for coeff in coeffs: share = idx * share + coeff; st = <<i, share>>
RECURSIVE make_share_loop(_, _, _, _)
make_share_loop(st, idx, coeffs, E) ==
    LET i     == st[1]
        share == st[2]
    IN IF i > Len(coeffs) THEN share
       ELSE make_share_loop(
                <<i + 1, __add__(__mul__(idx, share, E), coeffs[i])>>,
                idx, coeffs, E)

\* Mutant: the users are counted from 0, so the first share is p(0).
make_share_value_from_zero(user, coeffs, E) ==
    make_share_loop(<<1, 0>>, __init__int(user - 1), coeffs, E)

\* The field element make_share encodes: p(user), by Horner's rule.
make_share_value(user, coeffs, E) ==
    make_share_loop(<<1, 0>>, __init__int(user), coeffs, E)

make_share(user, coeffs, E) ==
    mnemonic_from_bytes(encode(make_share_value(user, coeffs, E), E))

\* Mutant: the coefficients are derived before the field size is selected.
split_derive_first(k, n, secret, E) ==
    LET secret_bytes == mnemonic_to_bytes(secret)
        fs == Len(secret_bytes) * 8
        E1 == set_field_size(E, fs)
        coeffs_bytes == mnemonic_to_shares(secret, k)
    IN IF set_field_size_raises(fs)
       THEN Outcome("UnsupportedFieldSize", E1, <<>>, <<>>, k - 1)
       ELSE LET coeffs == [i \in 1..k |-> __init__(coeffs_bytes[i], E1)]
            IN Outcome("ok", E1,
                       [i \in 1..n |-> <<i, make_share(i, coeffs, E1)>>],
                       <<>>, k - 1)

split(k, n, secret, E) ==
    LET secret_bytes == mnemonic_to_bytes(secret)
        fs == Len(secret_bytes) * 8
        E1 == set_field_size(E, fs)
    IN IF set_field_size_raises(fs)
       THEN Outcome("UnsupportedFieldSize", E1, <<>>, <<>>, 0)
       ELSE LET coeffs_bytes == mnemonic_to_shares(secret, k)
            IN IF \E i \in 1..k : __init__raises(coeffs_bytes[i], E1)
               THEN Outcome("InvalidEncoding", E1, <<>>, <<>>, k - 1)
               ELSE LET coeffs == [i \in 1..k |-> __init__(coeffs_bytes[i], E1)]
                    IN Outcome("ok", E1,
                               [i \in 1..n |-> <<i, make_share(i, coeffs, E1)>>],
                               <<>>, k - 1)

\* Mutant: a share is a duplicate only when index and value both repeat.
RECURSIVE combine_wrap_whole_pair(_, _, _)
combine_wrap_whole_pair(st, shares, E) ==
    LET i         == st[1]
        gf_shares == st[2]
    IN IF i > Len(shares) THEN [status |-> "ok", gf_shares |-> gf_shares]
       ELSE LET x   == shares[i]
                idx == __init__int(x[1])
            IN IF __init__raises(x[2], E)
               THEN [status |-> "InvalidEncoding", gf_shares |-> <<>>]
               ELSE IF \E p \in 1..Len(gf_shares) :
                          gf_shares[p] = <<idx, __init__(x[2], E)>>
               THEN [status |-> "DuplicateShareError", gf_shares |-> <<>>]
               ELSE combine_wrap_whole_pair(
                        <<i + 1, Append(gf_shares, <<idx, __init__(x[2], E)>>)>>,
                        shares, E)

\* for x in shares: ... of combine; st = <<i, gf_shares>>.  The result is the
\* list gf_shares, or the name of the error raised.
RECURSIVE combine_wrap(_, _, _)
combine_wrap(st, shares, E) ==
    LET i         == st[1]
        gf_shares == st[2]
    IN IF i > Len(shares) THEN [status |-> "ok", gf_shares |-> gf_shares]
       ELSE LET x   == shares[i]
                idx == __init__int(x[1])
            IN IF __init__raises(x[2], E)
               THEN [status |-> "InvalidEncoding", gf_shares |-> <<>>]
               ELSE IF \E p \in 1..Len(gf_shares) : gf_shares[p][1] = idx
               THEN [status |-> "DuplicateShareError", gf_shares |-> <<>>]
               ELSE combine_wrap(
                        <<i + 1, Append(gf_shares, <<idx, __init__(x[2], E)>>)>>,
                        shares, E)

\* for m in range(k): ... of combine; st = <<m, numerator, denominator>>
RECURSIVE combine_inner(_, _, _, _)
combine_inner(st, j, gf_shares, E) ==
    LET m           == st[1]
        numerator   == st[2]
        denominator == st[3]
    IN IF m > Len(gf_shares) THEN <<numerator, denominator>>
       ELSE LET x_j == gf_shares[j][1]
                x_m == gf_shares[m][1]
            IN IF m # j
               THEN combine_inner(<<m + 1, __mul__(numerator, x_m, E),
                                    __mul__(denominator, __add__(x_j, x_m), E)>>,
                                  j, gf_shares, E)
               ELSE combine_inner(<<m + 1, numerator, denominator>>,
                                  j, gf_shares, E)

\* for j in range(k): ... of combine; st = <<j, result>>.  The result is the
\* interpolated value, or the error raised by inverse().
RECURSIVE combine_outer(_, _, _)
combine_outer(st, gf_shares, E) ==
    LET j      == st[1]
        result == st[2]
    IN IF j > Len(gf_shares) THEN [status |-> "ok", result |-> result]
       ELSE LET y_j == gf_shares[j][2]
                nd  == combine_inner(<<1, 1, 1>>, j, gf_shares, E)
            IN IF inverse_raises(nd[2])
               THEN [status |-> "InversionOfZero", result |-> 0]
               ELSE combine_outer(
                        <<j + 1,
                          __add__(result,
                                  __mul__(__mul__(y_j, nd[1], E),
                                          inverse(nd[2], E), E))>>,
                        gf_shares, E)

\* combine from k = len(shares) on: the shares are wrapped, interpolated at
\* 0, and the result is encoded, all under the class attributes E.
combine_interpolate(decoded, E) ==
    LET w == combine_wrap(<<1, <<>>>>, decoded, E)
    IN IF w.status # "ok" THEN Outcome(w.status, E, <<>>, <<>>, 0)
       ELSE LET r == combine_outer(<<1, 0>>, w.gf_shares, E)
            IN IF r.status # "ok"
               THEN Outcome(r.status, E, <<>>, <<>>, 0)
               ELSE IF encode_raises(r.result, E)
               THEN Outcome("OverflowError", E, <<>>, <<>>, 0)
               ELSE Outcome("ok", E, <<>>,
                            mnemonic_from_bytes(encode(r.result, E)), 0)

combine(shares, E) ==
    LET decoded == [i \in 1..Len(shares) |->
                       <<shares[i][1], mnemonic_to_bytes(shares[i][2])>>]
        fs == Len(decoded[1][2]) * 8
        E1 == set_field_size(E, fs)
    IN IF set_field_size_raises(fs)
       THEN Outcome("UnsupportedFieldSize", E1, <<>>, <<>>, 0)
       ELSE combine_interpolate(decoded, E1)

(***************************************************************************)
(* The callers.  Spec: one caller makes split and combine calls one after  *)
(* the other, on secrets of every decoded length, and passes combine the   *)
(* shares it holds, in any order, possibly with a share from elsewhere.    *)
(***************************************************************************)
MaxN == 3

SecretBytes ==
    {<<83>>, <<254>>, <<0, 1>>, <<171, 205, 239>>, <<1, 2, 3, 4>>}

Secrets == {mnemonic_from_bytes(b) : b \in SecretBytes}

\* Payloads of shares that no split of the caller produced.
ForeignPayloads ==
    {mnemonic_from_bytes(b) : b \in {<<9>>, <<9, 8>>, <<9, 8, 7>>, <<9, 8, 7, 6>>}}

\* The class attributes as they are now.
Current == Attrs(field_size, irr_poly)

NoCall ==
    [op |-> "none", k |-> 0, n |-> 0, secret |-> <<>>, shares |-> <<>>,
     before |-> Attrs(NoAttr, NoAttr)]
NoRet == Outcome("none", Attrs(NoAttr, NoAttr), <<>>, <<>>, 0)
NoHeld == [k |-> 0, secret |-> <<>>, shares |-> <<>>]

\* The lists of len distinct shares out of the held ones, in every order.
Selections(len) ==
    LET n == Len(held.shares)
    IN {[i \in 1..len |-> held.shares[s[i]]] :
          s \in {t \in [1..len -> 1..n] :
                   \A i, j \in 1..len : i # j => t[i] # t[j]}}

InsertAt(list, p, x) ==
    SubSeq(list, 1, p - 1) \o <<x>> \o SubSeq(list, p, Len(list))

\* The first k held shares with one more share put in at any place: a copy
\* of a held share, or a foreign payload under a held or a fresh index.
Crafted ==
    LET base  == SubSeq(held.shares, 1, held.k)
        extra == {held.shares[1]}
                 \cup {<<i, t>> : i \in {1, Len(held.shares) + 1},
                                  t \in ForeignPayloads}
    IN {InsertAt(base, p, x) : p \in 1..(held.k + 1), x \in extra}

Init ==
    /\ field_size = NoAttr
    /\ irr_poly = NoAttr
    /\ call = NoCall
    /\ ret = NoRet
    /\ held = NoHeld
    /\ running = <<>>

\* The caller calls split(k, n, secret) and the call runs to its end.
Split ==
    /\ call.op = "none"
    /\ \E k \in 2..MaxN, n \in 2..MaxN, secret \in Secrets :
        /\ k <= n
        /\ LET r == split(k, n, secret, Current)
           IN /\ call' = [NoCall EXCEPT !.op = "split", !.k = k, !.n = n,
                                        !.secret = secret, !.before = Current]
              /\ ret' = r
              /\ field_size' = r.E.field_size
              /\ irr_poly' = r.E.irr_poly
              /\ held' = IF r.status = "ok"
                         THEN [k |-> k, secret |-> secret, shares |-> r.shares]
                         ELSE held
              /\ UNCHANGED running

\* The caller calls combine(shares) and the call runs to its end.
Combine ==
    /\ call.op = "none"
    /\ held.shares # <<>>
    /\ \E shares \in Selections(held.k) \cup Crafted :
        LET r == combine(shares, Current)
        IN /\ call' = [NoCall EXCEPT !.op = "combine", !.shares = shares,
                                     !.before = Current]
           /\ ret' = r
           /\ field_size' = r.E.field_size
           /\ irr_poly' = r.E.irr_poly
           /\ UNCHANGED <<held, running>>

\* The caller has taken the result (or caught the error) and goes on.
Return ==
    /\ call.op # "none"
    /\ call' = NoCall
    /\ ret' = NoRet
    /\ UNCHANGED <<field_size, irr_poly, held, running>>

Next == Split \/ Combine \/ Return

Spec == Init /\ [][Next]_vars

(***************************************************************************)
(* Properties of the sequential caller (Spec).                             *)
(***************************************************************************)
DecodedLen(share) == Len(mnemonic_to_bytes(share[2]))

\* Entry j of the list repeats the index of an earlier entry.
DupAt(shares, j) == \E i \in 1..(j - 1) : shares[i][1] = shares[j][1]

HasDuplicate(shares) == \E j \in 1..Len(shares) : DupAt(shares, j)

FirstDup(shares) ==
    CHOOSE j \in 1..Len(shares) :
        DupAt(shares, j) /\ \A i \in 1..(j - 1) : ~DupAt(shares, i)

MixedLengths(shares) ==
    \E i \in 1..Len(shares) : DecodedLen(shares[i]) # DecodedLen(shares[1])

FirstLengthSupported(shares) == DecodedLen(shares[1]) * 8 \in Supported

\* C1: combine of any k of the n shares of split(k, n, secret), taken in any
\* order, returns the secret that was split.
C1_RoundTrip ==
    (call.op = "combine" /\ call.shares \in Selections(held.k))
        => (ret.status = "ok" /\ ret.secret = held.secret)

C1_Witness ==
    /\ call.op = "combine"
    /\ call.shares \in Selections(held.k)
    /\ held.k = 2
    /\ Len(held.shares) = 3
    /\ call.shares[1][1] = 3
    /\ call.shares[2][1] = 1
    /\ field_size = 16
    /\ ret.secret = held.secret

\* C4: split(k, n, secret) returns the same shares (or raises the same error)
\* in whatever state earlier calls left the class attributes as it does when
\* it is the first call ever made.
C4_Determinism ==
    call.op = "split" =>
        LET first == split(call.k, call.n, call.secret, Attrs(NoAttr, NoAttr))
        IN ret.status = first.status /\ ret.shares = first.shares

C4_Witness ==
    /\ call.op = "split"
    /\ ret.status = "ok"
    /\ call.before.field_size = 32
    /\ call.before.irr_poly = irr_poly_table[8]
    /\ field_size = 16
    /\ Len(ret.shares) = 3

\* C7 as stated: combine of any list in which two entries carry the same
\* index raises DuplicateShareError.
C7_DuplicateAlwaysReported ==
    (call.op = "combine" /\ HasDuplicate(call.shares))
        => ret.status = "DuplicateShareError"

\* C7 (amended): combine of a list in which two entries carry the same index
\* returns no secret.  It raises DuplicateShareError when the first share's
\* length is supported and every entry up to the first repeated index has
\* that length; otherwise it raises UnsupportedFieldSize or InvalidEncoding.
C7_DuplicateRejected ==
    (call.op = "combine" /\ HasDuplicate(call.shares)) =>
        /\ ret.secret = <<>>
        /\ ret.status \in
             {"DuplicateShareError", "UnsupportedFieldSize", "InvalidEncoding"}
        /\ ret.status = "UnsupportedFieldSize"
              <=> ~FirstLengthSupported(call.shares)
        /\ ret.status = "DuplicateShareError"
              <=> /\ FirstLengthSupported(call.shares)
                  /\ \A i \in 1..FirstDup(call.shares) :
                        DecodedLen(call.shares[i]) = DecodedLen(call.shares[1])

C7_Witness ==
    /\ call.op = "combine"
    /\ Len(call.shares) = 3
    /\ call.shares[1][1] = call.shares[3][1]
    /\ call.shares[1][2] # call.shares[3][2]
    /\ ret.status = "DuplicateShareError"

\* C8: split of a secret whose decoded length times 8 is not a supported
\* field size raises UnsupportedFieldSize, having derived no coefficient,
\* and returns no shares.
C8_UnsupportedSize ==
    (call.op = "split" /\ Len(mnemonic_to_bytes(call.secret)) * 8 \notin Supported)
        => /\ ret.status = "UnsupportedFieldSize"
           /\ ret.shares = <<>>
           /\ ret.derived = 0

C8_Witness ==
    /\ call.op = "split"
    /\ Len(mnemonic_to_bytes(call.secret)) = 4
    /\ call.k = 3
    /\ ret.status = "UnsupportedFieldSize"

\* C9 as stated: combine of shares that decode to different lengths is not
\* rejected: with a supported first length and distinct indices the call
\* runs to completion and returns a result.
C9_MixedLengthsAccepted ==
    (/\ call.op = "combine"
     /\ MixedLengths(call.shares)
     /\ FirstLengthSupported(call.shares)
     /\ ~HasDuplicate(call.shares))
        => ret.status = "ok"

\* C9 (amended): combine has no check of its own, but a combine call whose
\* shares decode to different lengths never returns a result: the element
\* constructor raises InvalidEncoding at the first share whose length is not
\* that of the first share, unless UnsupportedFieldSize or DuplicateShareError
\* is raised before.
C9_MixedLengthsRejected ==
    (call.op = "combine" /\ MixedLengths(call.shares)) =>
        /\ ret.secret = <<>>
        /\ ret.status \in
             {"InvalidEncoding", "UnsupportedFieldSize", "DuplicateShareError"}
        /\ (FirstLengthSupported(call.shares) /\ ~HasDuplicate(call.shares))
              => ret.status = "InvalidEncoding"

C9_Witness ==
    /\ call.op = "combine"
    /\ MixedLengths(call.shares)
    /\ FirstLengthSupported(call.shares)
    /\ ~HasDuplicate(call.shares)
    /\ DecodedLen(call.shares[Len(call.shares)]) # DecodedLen(call.shares[1])
    /\ ret.status = "InvalidEncoding"

\* C10: once a call has been made, field_size is a supported size and
\* irr_poly is its table entry, and a call that raised UnsupportedFieldSize
\* left both attributes as they were before the call.
C10_FieldConfigConsistent ==
    /\ field_size # NoAttr
          => (field_size \in Supported /\ irr_poly = irr_poly_table[field_size])
    /\ ret.status = "UnsupportedFieldSize" => Current = call.before

(***************************************************************************)
(* SpecField: the field operations on their own.  A field size is selected *)
(* once; add, multiply and inverse are then applied to operands drawn from *)
(* the low end, the high end and the middle of [0, 2^field_size), and      *)
(* inverse to every element of the smallest field.                         *)
(***************************************************************************)
SampleSpan == 3

ExhaustiveBits == 8

Elems(fs) ==
    {i : i \in 0..(SampleSpan - 1)}
    \cup {2 ^ fs - 1 - i : i \in 0..(SampleSpan - 1)}
    \cup {2 ^ (fs - 1) + i : i \in 0..(SampleSpan - 1)}
    \cup {(2 ^ fs) \div 3 + 7 * i : i \in 0..(SampleSpan - 1)}

InverseOperands(fs) ==
    IF fs <= ExhaustiveBits THEN 0..(2 ^ fs - 1) ELSE Elems(fs)

NoFieldCall == [op |-> "none", a |-> 0, b |-> 0]
NoFieldRet == [status |-> "none", value |-> 0]

FieldInit ==
    /\ \E fs \in Supported :
          /\ field_size = set_field_size(Attrs(NoAttr, NoAttr), fs).field_size
          /\ irr_poly = set_field_size(Attrs(NoAttr, NoAttr), fs).irr_poly
    /\ call = NoFieldCall
    /\ ret = NoFieldRet
    /\ held = NoHeld
    /\ running = <<>>

FieldAdd ==
    /\ call.op = "none"
    /\ \E a, b \in Elems(field_size) :
          /\ call' = [op |-> "add", a |-> a, b |-> b]
          /\ ret' = [status |-> "ok", value |-> __add__(a, b)]
    /\ UNCHANGED <<field_size, irr_poly, held, running>>

FieldMul ==
    /\ call.op = "none"
    /\ \E a, b \in Elems(field_size) :
          /\ call' = [op |-> "mul", a |-> a, b |-> b]
          /\ ret' = [status |-> "ok", value |-> __mul__(a, b, Current)]
    /\ UNCHANGED <<field_size, irr_poly, held, running>>

FieldInverse ==
    /\ call.op = "none"
    /\ \E a \in InverseOperands(field_size) :
          /\ call' = [op |-> "inverse", a |-> a, b |-> 0]
          /\ ret' = IF inverse_raises(a)
                    THEN [status |-> "InversionOfZero", value |-> 0]
                    ELSE [status |-> "ok", value |-> inverse(a, Current)]
    /\ UNCHANGED <<field_size, irr_poly, held, running>>

FieldReturn ==
    /\ call.op # "none"
    /\ call' = NoFieldCall
    /\ ret' = NoFieldRet
    /\ UNCHANGED <<field_size, irr_poly, held, running>>

FieldNext == FieldAdd \/ FieldMul \/ FieldInverse \/ FieldReturn

SpecField == FieldInit /\ [][FieldNext]_vars

\* C5: a + a = 0, a + b = b + a, (a * b) * c = a * (b * c) and
\* a * (b + c) = a * b + a * c, for the operands a, b of the operation just
\* applied and every third operand c of the same field.
C5_FieldLaws ==
    /\ (call.op = "add" /\ call.a = call.b) => ret.value = 0
    /\ call.op = "add" => ret.value = __add__(call.b, call.a)
    /\ call.op = "mul" =>
          \A c \in Elems(field_size) :
              __mul__(ret.value, c, Current)
                  = __mul__(call.a, __mul__(call.b, c, Current), Current)
    /\ call.op = "add" =>
          \A c \in Elems(field_size) :
              __mul__(c, ret.value, Current)
                  = __add__(__mul__(c, call.a, Current),
                            __mul__(c, call.b, Current))

C5_Witness ==
    /\ call.op = "mul"
    /\ field_size = 24
    /\ call.a = 2 ^ 23 + 1
    /\ call.b = 2 ^ 24 - 2
    /\ ret.value \notin {0, 1, call.a, call.b}

\* C6: inverse raises InversionOfZero exactly on the element 0, and on every
\* other element a of [0, 2^m) it returns an element b of [0, 2^m) with
\* a * b = 1.
C6_Inverse ==
    call.op = "inverse" =>
        /\ ret.status = "InversionOfZero" <=> call.a = 0
        /\ call.a # 0 =>
              /\ ret.status = "ok"
              /\ ret.value \in 0..(2 ^ field_size - 1)
              /\ __mul__(call.a, ret.value, Current) = 1

C6_Witness ==
    /\ call.op = "inverse"
    /\ field_size = 16
    /\ call.a = 2 ^ 15 + 2
    /\ ret.status = "ok"
    /\ ret.value > 1

(***************************************************************************)
(* SpecSecrecy: what fewer than k shares show.  The k-1 coefficients that  *)
(* split derives are taken as free elements of the field; the secret is    *)
(* the last coefficient.  An observer holds the share values at k-1        *)
(* distinct indices.  For a secret, the set of the value tuples over all   *)
(* coefficient choices is computed and compared with the set of all        *)
(* tuples of field elements, which does not depend on the secret.          *)
(***************************************************************************)
MaxIndex == 3

\* The smallest field of the table.
SecrecyBits ==
    CHOOSE fs \in Supported : \A other \in Supported : fs <= other

Thresholds == {2, 3}

\* Secrets tried with threshold k: every element for k = 2, a sample for the
\* larger coefficient space of k = 3.
SecrecySecrets(k) ==
    IF k = 2 THEN 0..(2 ^ SecrecyBits - 1) ELSE {83}

\* Strictly increasing index sequences of the given length within 1..MaxIndex.
IndexChoices(len) ==
    {X \in [1..len -> 1..MaxIndex] :
        \A i \in 1..len : \A j \in 1..len : i < j => X[i] < X[j]}

\* Every choice of the k-1 free coefficients, and equally every tuple of
\* k-1 field elements.
TupleSpace(k, E) == [1..(k - 1) -> 0..(2 ^ E.field_size - 1)]

\* The tuples of share values at indices X over every choice of the k-1
\* free coefficients, for the secret s.
ShareTuples(k, X, s, E) ==
    {[i \in 1..Len(X) |-> make_share_value(X[i], cs \o <<s>>, E)] :
        cs \in TupleSpace(k, E)}

NoObservation == [op |-> "none", k |-> 0, indices |-> <<>>, s |-> 0]
NoTuples == [status |-> "none", tuples |-> {}]

SecrecyInit ==
    /\ field_size = set_field_size(Attrs(NoAttr, NoAttr), SecrecyBits).field_size
    /\ irr_poly = set_field_size(Attrs(NoAttr, NoAttr), SecrecyBits).irr_poly
    /\ call = NoObservation
    /\ ret = NoTuples
    /\ held = NoHeld
    /\ running = <<>>

Observe ==
    /\ call.op = "none"
    /\ \E k \in Thresholds :
       \E X \in IndexChoices(k - 1) :
       \E s \in SecrecySecrets(k) :
          /\ call' = [op |-> "observe", k |-> k, indices |-> X, s |-> s]
          /\ ret' = [status |-> "ok",
                     tuples |-> ShareTuples(k, X, s, Current)]
    /\ UNCHANGED <<field_size, irr_poly, held, running>>

Forget ==
    /\ call.op # "none"
    /\ call' = NoObservation
    /\ ret' = NoTuples
    /\ UNCHANGED <<field_size, irr_poly, held, running>>

SecrecyNext == Observe \/ Forget

SpecSecrecy == SecrecyInit /\ [][SecrecyNext]_vars

\* C2: at any k-1 distinct indices and for any secret, the share-value
\* tuples that the Horner evaluation produces over all choices of the k-1
\* free coefficients are all the tuples of k-1 field elements: the same set
\* whatever the secret, with as many tuples as coefficient choices, so each
\* tuple comes from exactly one choice.
C2_SecrecyBelowThreshold ==
    call.op = "observe" => ret.tuples = TupleSpace(call.k, Current)

C2_Witness ==
    /\ call.op = "observe"
    /\ call.k = 3
    /\ call.indices = <<2, 3>>
    /\ call.s = 83
    /\ Cardinality(ret.tuples) = 65536

(***************************************************************************)
(* SpecConc: two invocations run at once, one on the 8-bit field and one   *)
(* on the 16-bit field.  The class attributes field_size and irr_poly are  *)
(* the only state they share.  Each invocation advances one statement at a *)
(* time: the assignment and the table lookup of set_field_size, one        *)
(* coefficient construction, one Horner step, one encode.  A combine runs  *)
(* its part after set_field_size as one step.  Every statement reads the   *)
(* class attributes as they are when it runs.                              *)
(***************************************************************************)
ConcShares == 2

NoAttrs == Attrs(NoAttr, NoAttr)

\* The locals of an invocation about to call set_field_size.
Invocation(op, secret) ==
    [pc |-> "set_size", op |-> op, k |-> ConcShares, n |-> ConcShares,
     secret |-> secret,
     given |-> IF op = "combine"
               THEN split(ConcShares, ConcShares, secret, NoAttrs).shares
               ELSE <<>>,
     coeffs |-> <<>>, user |-> 1, j |-> 1, share |-> 0, shares |-> <<>>,
     status |-> "running", result |-> <<>>]

ConcOps == {"split", "combine"}

\* The field size the invocation passes to set_field_size.
SelectedSize(th) ==
    IF th.op = "split" THEN Len(mnemonic_to_bytes(th.secret)) * 8
    ELSE Len(mnemonic_to_bytes(th.given[1][2])) * 8

Decoded(th) ==
    [i \in 1..Len(th.given) |->
        <<th.given[i][1], mnemonic_to_bytes(th.given[i][2])>>]

Raised(th, error) == [th EXCEPT !.pc = "done", !.status = error]

\* What the invocation returns or raises when nothing else runs.
Alone(th) ==
    IF th.op = "split" THEN split(th.k, th.n, th.secret, NoAttrs)
    ELSE combine(th.given, NoAttrs)

ConcInit ==
    /\ field_size = NoAttr
    /\ irr_poly = NoAttr
    /\ call = NoCall
    /\ ret = NoRet
    /\ held = NoHeld
    /\ \E op1 \in ConcOps, op2 \in ConcOps :
          running = <<Invocation(op1, mnemonic_from_bytes(<<83>>)),
                      Invocation(op2, mnemonic_from_bytes(<<171, 205>>))>>

\* _Element.field_size = field_size
SetSizeStep ==
    \E t \in 1..Len(running) :
        /\ running[t].pc = "set_size"
        /\ field_size' = set_field_size_assign(Current, SelectedSize(running[t])).field_size
        /\ running' = [running EXCEPT ![t].pc = "lookup"]
        /\ UNCHANGED <<irr_poly, call, ret, held>>

\* _Element.irr_poly = _Element.irr_poly_table[field_size]
LookupStep ==
    \E t \in 1..Len(running) :
        LET th == running[t]
            fs == SelectedSize(th)
        IN /\ th.pc = "lookup"
           /\ IF set_field_size_raises(fs)
              THEN /\ running' = [running EXCEPT
                                     ![t] = Raised(th, "UnsupportedFieldSize")]
                   /\ UNCHANGED irr_poly
              ELSE /\ irr_poly' = irr_poly_table[fs]
                   /\ running' = [running EXCEPT
                                     ![t].pc = IF th.op = "split"
                                               THEN "construct"
                                               ELSE "interpolate"]
           /\ UNCHANGED <<field_size, call, ret, held>>

\* One _Element(coeffs_bytes[i]) of the list built by split.
ConstructStep ==
    \E t \in 1..Len(running) :
        LET th           == running[t]
            coeffs_bytes == mnemonic_to_shares(th.secret, th.k)
            i            == Len(th.coeffs) + 1
        IN /\ th.pc = "construct"
           /\ running' =
                 [running EXCEPT ![t] =
                     IF __init__raises(coeffs_bytes[i], Current)
                     THEN Raised(th, "InvalidEncoding")
                     ELSE [th EXCEPT
                              !.coeffs = Append(th.coeffs,
                                                __init__(coeffs_bytes[i], Current)),
                              !.pc = IF i = th.k THEN "horner" ELSE "construct"]]
           /\ UNCHANGED <<field_size, irr_poly, call, ret, held>>

\* One share = idx * share + coeff of make_share.
HornerStep ==
    \E t \in 1..Len(running) :
        LET th == running[t]
        IN /\ th.pc = "horner"
           /\ running' =
                 [running EXCEPT ![t] =
                     [th EXCEPT
                         !.share = __add__(__mul__(__init__int(th.user),
                                                   th.share, Current),
                                           th.coeffs[th.j]),
                         !.j = th.j + 1,
                         !.pc = IF th.j = Len(th.coeffs) THEN "encode"
                                ELSE "horner"]]
           /\ UNCHANGED <<field_size, irr_poly, call, ret, held>>

\* return mnemonic_from_bytes(share.encode()) of make_share, and the next
\* user of the list split returns.
EncodeStep ==
    \E t \in 1..Len(running) :
        LET th == running[t]
        IN /\ th.pc = "encode"
           /\ running' =
                 [running EXCEPT ![t] =
                     IF encode_raises(th.share, Current)
                     THEN Raised(th, "OverflowError")
                     ELSE [th EXCEPT
                              !.shares = Append(th.shares,
                                  <<th.user,
                                    mnemonic_from_bytes(encode(th.share, Current))>>),
                              !.user = th.user + 1,
                              !.j = 1,
                              !.share = 0,
                              !.pc = IF th.user = th.n THEN "done" ELSE "horner",
                              !.status = IF th.user = th.n THEN "ok"
                                         ELSE "running"]]
           /\ UNCHANGED <<field_size, irr_poly, call, ret, held>>

\* combine after its set_field_size call.
InterpolateStep ==
    \E t \in 1..Len(running) :
        LET th == running[t]
            r  == combine_interpolate(Decoded(th), Current)
        IN /\ th.pc = "interpolate"
           /\ running' = [running EXCEPT ![t] =
                             [th EXCEPT !.pc = "done", !.status = r.status,
                                        !.result = r.secret]]
           /\ UNCHANGED <<field_size, irr_poly, call, ret, held>>

ConcNext ==
    \/ SetSizeStep
    \/ LookupStep
    \/ ConstructStep
    \/ HornerStep
    \/ EncodeStep
    \/ InterpolateStep

SpecConc == ConcInit /\ [][ConcNext]_vars

\* C3: an invocation interleaved with another one on a different field size
\* ends with the status, the shares and the secret it ends with alone.
C3_NoRace ==
    \A t \in 1..Len(running) :
        running[t].pc = "done" =>
            /\ running[t].status = Alone(running[t]).status
            /\ running[t].shares = Alone(running[t]).shares
            /\ running[t].result = Alone(running[t]).secret

=============================================================================
